---- MODULE Spec2Model ----
(***************************************************************************)
(* Loan EMI system: the amortization calculator (LoanCalculator), the      *)
(* eligibility validator (LoanValidator) with its criteria table           *)
(* (LOAN_CRITERIA) and the login, apply_loan and payment_history request   *)
(* handlers.                                                               *)
(*                                                                         *)
(* Numbers.  The program computes with Python floats.  A number is         *)
(* modelled as an exact fraction [n |-> numerator, d |-> denominator] in   *)
(* lowest terms with d > 0; float('inf') is the fraction with d = 0.       *)
(* round(x, k) is round-half-to-even on the exact value, as Python's       *)
(* round is on the value of the double.  The input sets below hold only    *)
(* requests on which the exact computation and the float computation       *)
(* yield the same rounded values (no value sits on a half-cent tie that    *)
(* the binary representation would decide), and on which every             *)
(* intermediate numerator stays below 2^31.                                *)
(*                                                                         *)
(* A Python exception is modelled as an outcome: an operator that can      *)
(* raise returns [exc |-> name, val |-> ...], exc = "" for a normal        *)
(* return.                                                                 *)
(***************************************************************************)
EXTENDS Integers, Sequences, FiniteSets, TLC

VARIABLES
    today,      \* the date datetime.today() yields, <<year, month, day>>
    user,       \* current_user: the logged-in User row
    users,      \* the User table, in insertion order (id = index)
    loans,      \* the Loan table, in insertion order (id = index)
    emis,       \* the EMI table, in insertion order (id = index)
    req,        \* the arguments a direct caller of models.py holds
    ret         \* outcome of the last call or request

vars == <<today, user, users, loans, emis, req, ret>>

----------------------------------------------------------------------------
(* Exact fractions standing for Python floats *)

Abs(x) == IF x < 0 THEN -x ELSE x

RECURSIVE GCD(_, _)
GCD(a, b) == IF b = 0 THEN a ELSE GCD(b, a % b)

Frac(n, d) ==
    LET g == GCD(Abs(n), d)
    IN  [n |-> n \div g, d |-> d \div g]

Num(x) == [n |-> x, d |-> 1]

Zero == Num(0)

One == Num(1)

Inf == [n |-> 1, d |-> 0]

Neg(a) == [n |-> -a.n, d |-> a.d]

Add(a, b) ==
    LET g == GCD(a.d, b.d)
        l == (a.d \div g) * b.d
    IN  Frac(a.n * (l \div a.d) + b.n * (l \div b.d), l)

Sub(a, b) == Add(a, Neg(b))

Mul(a, b) ==
    LET g1 == GCD(Abs(a.n), b.d)
        g2 == GCD(Abs(b.n), a.d)
    IN  Frac((a.n \div g1) * (b.n \div g2), (a.d \div g2) * (b.d \div g1))

\* 1 / a, for a # 0
Inv(a) == IF a.n < 0 THEN [n |-> -a.d, d |-> -a.n] ELSE [n |-> a.d, d |-> a.n]

\* a / b, for b # 0 (the callers raise ZeroDivisionError before using it)
Div(a, b) == Mul(a, Inv(b))

\* a < b: by the integer parts, then by the fractional parts
Lt(a, b) ==
    IF a.d = 0 THEN FALSE
    ELSE IF b.d = 0 THEN TRUE
    ELSE LET fa == a.n \div a.d
             fb == b.n \div b.d
         IN  IF fa # fb THEN fa < fb
             ELSE (a.n - fa * a.d) * b.d < (b.n - fb * b.d) * a.d

Gt(a, b) == Lt(b, a)

IsZero(a) == a.n = 0

RECURSIVE Pow10(_)
Pow10(k) == IF k = 0 THEN 1 ELSE 10 * Pow10(k - 1)

\* Python round(x, ndigits): nearest multiple of 10^-ndigits, ties to even
round(x, ndigits) ==
    LET scale == Pow10(ndigits)
        whole == x.n \div x.d
        r1    == x.n - whole * x.d
        q     == (r1 * scale) \div x.d
        r2    == (r1 * scale) % x.d
        up    == \/ 2 * r2 > x.d
                 \/ 2 * r2 = x.d /\ q % 2 = 1
    IN  Frac(whole * scale + q + (IF up THEN 1 ELSE 0), scale)

Ok(v) == [exc |-> "", val |-> v]

Raise(e) == [exc |-> e, val |-> <<>>]

\* math.pow(x, y) for an integer y
RECURSIVE PowNat(_, _)
PowNat(x, y) == IF y = 0 THEN One ELSE Mul(x, PowNat(x, y - 1))

math_pow(x, y) ==
    IF y >= 0 THEN Ok(PowNat(x, y))
    ELSE IF IsZero(x) THEN Raise("ValueError")
    ELSE Ok(Inv(PowNat(x, -y)))

----------------------------------------------------------------------------
(* models.py: LOAN_CRITERIA *)

LOAN_CRITERIA ==
    [ PersonalLoan |->
        [min_age |-> Num(21), max_age_maturity |-> Num(65),
         min_income |-> Num(300000), min_employment_years |-> Num(1),
         min_credit_score |-> Num(650), max_dti_ratio |-> Num(40),
         min_interest_rate |-> Frac(21, 2), max_loan_to_income |-> Num(5)],
      HomeLoan |->
        [min_age |-> Num(21), max_age_maturity |-> Num(70),
         min_income |-> Num(600000), min_employment_years |-> Num(2),
         min_credit_score |-> Num(700), max_dti_ratio |-> Num(35),
         min_interest_rate |-> Frac(17, 2), max_loan_to_income |-> Num(6)],
      CarLoan |->
        [min_age |-> Num(21), max_age_maturity |-> Num(65),
         min_income |-> Num(400000), min_employment_years |-> Num(1),
         min_credit_score |-> Num(600), max_dti_ratio |-> Num(45),
         min_interest_rate |-> Frac(15, 2), max_loan_to_income |-> Num(5)],
      EducationLoan |->
        [min_age |-> Num(18), max_age_maturity |-> Num(35),
         min_income |-> Num(0), min_employment_years |-> Num(0),
         min_credit_score |-> Num(550), max_dti_ratio |-> Num(0),
         min_interest_rate |-> Num(8), max_loan_to_income |-> Num(10)],
      BusinessLoan |->
        [min_age |-> Num(25), max_age_maturity |-> Num(65),
         min_income |-> Num(800000), min_employment_years |-> Num(3),
         min_credit_score |-> Num(720), max_dti_ratio |-> Num(30),
         min_interest_rate |-> Num(11), max_loan_to_income |-> Num(4)] ]

\* the catalog keys 'Personal Loan', 'Home Loan', ... as field names
CatalogKey(loan_type) ==
    CASE loan_type = "Personal Loan"  -> "PersonalLoan"
      [] loan_type = "Home Loan"      -> "HomeLoan"
      [] loan_type = "Car Loan"       -> "CarLoan"
      [] loan_type = "Education Loan" -> "EducationLoan"
      [] loan_type = "Business Loan"  -> "BusinessLoan"
      [] OTHER                        -> ""

\* the lookup with the Home Loan entry as the default
criteria_get_home_default(loan_type) ==
    IF CatalogKey(loan_type) \in DOMAIN LOAN_CRITERIA
    THEN LOAN_CRITERIA[CatalogKey(loan_type)]
    ELSE LOAN_CRITERIA["HomeLoan"]

\* LOAN_CRITERIA.get(loan_type, LOAN_CRITERIA['Personal Loan'])
criteria_get(loan_type) ==
    IF CatalogKey(loan_type) \in DOMAIN LOAN_CRITERIA
    THEN LOAN_CRITERIA[CatalogKey(loan_type)]
    ELSE LOAN_CRITERIA["PersonalLoan"]

----------------------------------------------------------------------------
(* datetime: dates are <<year, month, day>>; a datetime value that is only
   shifted by whole days is its proleptic Gregorian ordinal *)

is_leap(y) == y % 4 = 0 /\ (y % 100 # 0 \/ y % 400 = 0)

DAYS_BEFORE_MONTH == <<0, 31, 59, 90, 120, 151, 181, 212, 243, 273, 304, 334>>

toordinal(date) ==
    LET y == date[1] - 1
    IN  y * 365 + (y \div 4) - (y \div 100) + (y \div 400)
        + DAYS_BEFORE_MONTH[date[2]]
        + (IF date[2] > 2 /\ is_leap(date[1]) THEN 1 ELSE 0)
        + date[3]

\* start_date + timedelta(days = 30 * i)
due_date_of(start_date, i) == toordinal(start_date) + 30 * i

None == "None"

----------------------------------------------------------------------------
(* models.py: LoanCalculator *)

calculate_emi(principal, annual_rate, tenure_months) ==
    LET monthly_rate == Div(Div(annual_rate, Num(12)), Num(100))
        pw           == math_pow(Add(One, monthly_rate), tenure_months)
    IN  IF pw.exc # "" THEN pw
        ELSE IF IsZero(Sub(pw.val, One)) THEN Raise("ZeroDivisionError")
        ELSE Ok(round(Div(Mul(Mul(principal, monthly_rate), pw.val),
                          Sub(pw.val, One)), 2))

\* the body of "for i in range(1, loan_term + 1)", from iteration i on
RECURSIVE schedule_loop(_, _, _, _, _, _, _)
schedule_loop(i, emi_amount, remaining_principal, schedule, monthly_rate, loan_term, start_date) ==
    IF i > loan_term THEN schedule
    ELSE
        LET interest_component  == Mul(remaining_principal, monthly_rate)
            principal_component ==
                IF i = loan_term THEN remaining_principal
                ELSE Sub(emi_amount, interest_component)
            emi_amount_i ==
                IF i = loan_term
                THEN Add(principal_component, interest_component)
                ELSE emi_amount
            entry ==
                [emi_number          |-> i,
                 due_date            |-> due_date_of(start_date, i),
                 emi_amount          |-> round(emi_amount_i, 2),
                 principal_component |-> round(principal_component, 2),
                 interest_component  |-> round(interest_component, 2),
                 remaining_principal |->
                     round(Sub(remaining_principal, principal_component), 2)]
        IN  schedule_loop(i + 1, emi_amount_i,
                          Sub(remaining_principal, principal_component),
                          Append(schedule, entry),
                          monthly_rate, loan_term, start_date)

generate_emi_schedule(loan_amount, interest_rate, loan_term, start_date) ==
    LET emi_amount   == calculate_emi(loan_amount, interest_rate, loan_term)
        monthly_rate == Div(Div(interest_rate, Num(12)), Num(100))
    IN  IF emi_amount.exc # "" THEN emi_amount
        ELSE Ok(schedule_loop(1, emi_amount.val, loan_amount, <<>>,
                              monthly_rate, loan_term, start_date))

calculate_total_interest(loan_amount, interest_rate, loan_term) ==
    LET emi == calculate_emi(loan_amount, interest_rate, loan_term)
    IN  IF emi.exc # "" THEN emi
        ELSE Ok(round(Sub(Mul(emi.val, Num(loan_term)), loan_amount), 2))

----------------------------------------------------------------------------
(* models.py: LoanValidator *)

\* (today.month, today.day) < (birth_date.month, birth_date.day)
birthday_ahead(birth_date) ==
    \/ today[2] < birth_date[2]
    \/ today[2] = birth_date[2] /\ today[3] < birth_date[3]

calculate_age(birth_date) ==
    IF birth_date = None THEN 0
    ELSE today[1] - birth_date[1] - (IF birthday_ahead(birth_date) THEN 1 ELSE 0)

calculate_employment_years(employment_start_date) ==
    IF employment_start_date = None THEN Zero
    ELSE LET days == toordinal(today) - toordinal(employment_start_date)
         IN  round(Div(Num(days), Frac(1461, 4)), 1)

calculate_dti_ratio(u, new_loan_emi) ==
    LET monthly_income     == Div(u.annual_income, Num(12))
        total_monthly_debt == Add(u.existing_emis, new_loan_emi)
    IN  IF IsZero(monthly_income) THEN Num(100)
        ELSE Mul(Div(total_monthly_debt, monthly_income), Num(100))

\* "if cond: issues.append(message)"
append_if(cond, message) == IF cond THEN <<message>> ELSE <<>>

MSG_MIN_AGE == "Minimum age required: {} years"

MSG_MAX_AGE_MATURITY == "Maximum age at loan maturity: {} years"

MSG_MIN_INCOME == "Minimum annual income required: {:,.0f}"

MSG_MIN_EMPLOYMENT == "Minimum employment years required: {}"

MSG_MIN_CREDIT_SCORE == "Minimum credit score required: {}"

MSG_MAX_DTI == "Maximum Debt-to-Income ratio: {}% (Your DTI: {:.1f}%)"

MSG_MIN_INTEREST_RATE == "Minimum interest rate: {}%"

MSG_MAX_LOAN_TO_INCOME == "Maximum loan-to-income ratio: {}x"

\* run_checks as an elif chain: stops at the first failing check
run_checks_elif(u, interest_rate, criteria, age, employment_years, dti_ratio, loan_to_income, age_at_maturity) ==
    IF Lt(Num(age), criteria.min_age)
    THEN <<<<MSG_MIN_AGE, criteria.min_age>>>>
    ELSE IF Gt(age_at_maturity, criteria.max_age_maturity)
    THEN <<<<MSG_MAX_AGE_MATURITY, criteria.max_age_maturity>>>>
    ELSE IF Lt(u.annual_income, criteria.min_income)
    THEN <<<<MSG_MIN_INCOME, criteria.min_income>>>>
    ELSE IF Lt(employment_years, criteria.min_employment_years)
    THEN <<<<MSG_MIN_EMPLOYMENT, criteria.min_employment_years>>>>
    ELSE IF Lt(Num(u.credit_score), criteria.min_credit_score)
    THEN <<<<MSG_MIN_CREDIT_SCORE, criteria.min_credit_score>>>>
    ELSE IF Gt(dti_ratio, criteria.max_dti_ratio)
    THEN <<<<MSG_MAX_DTI, criteria.max_dti_ratio, round(dti_ratio, 1)>>>>
    ELSE IF Lt(interest_rate, criteria.min_interest_rate)
    THEN <<<<MSG_MIN_INTEREST_RATE, criteria.min_interest_rate>>>>
    ELSE IF Gt(loan_to_income, criteria.max_loan_to_income)
    THEN <<<<MSG_MAX_LOAN_TO_INCOME, criteria.max_loan_to_income>>>>
    ELSE <<>>

\* run_checks with the DTI check written dti_ratio >= max_dti_ratio
run_checks_dti_ge(u, interest_rate, criteria, age, employment_years, dti_ratio, loan_to_income, age_at_maturity) ==
       append_if(Lt(Num(age), criteria.min_age),
                 <<MSG_MIN_AGE, criteria.min_age>>)
    \o append_if(Gt(age_at_maturity, criteria.max_age_maturity),
                 <<MSG_MAX_AGE_MATURITY, criteria.max_age_maturity>>)
    \o append_if(Lt(u.annual_income, criteria.min_income),
                 <<MSG_MIN_INCOME, criteria.min_income>>)
    \o append_if(Lt(employment_years, criteria.min_employment_years),
                 <<MSG_MIN_EMPLOYMENT, criteria.min_employment_years>>)
    \o append_if(Lt(Num(u.credit_score), criteria.min_credit_score),
                 <<MSG_MIN_CREDIT_SCORE, criteria.min_credit_score>>)
    \o append_if(~Lt(dti_ratio, criteria.max_dti_ratio),
                 <<MSG_MAX_DTI, criteria.max_dti_ratio, round(dti_ratio, 1)>>)
    \o append_if(Lt(interest_rate, criteria.min_interest_rate),
                 <<MSG_MIN_INTEREST_RATE, criteria.min_interest_rate>>)
    \o append_if(Gt(loan_to_income, criteria.max_loan_to_income),
                 <<MSG_MAX_LOAN_TO_INCOME, criteria.max_loan_to_income>>)

\* the eight checks of validate_loan_application, each appending its
\* f-string (the template and the values formatted into it) when it fails
run_checks(u, interest_rate, criteria, age, employment_years, dti_ratio, loan_to_income, age_at_maturity) ==
       append_if(Lt(Num(age), criteria.min_age),
                 <<MSG_MIN_AGE, criteria.min_age>>)
    \o append_if(Gt(age_at_maturity, criteria.max_age_maturity),
                 <<MSG_MAX_AGE_MATURITY, criteria.max_age_maturity>>)
    \o append_if(Lt(u.annual_income, criteria.min_income),
                 <<MSG_MIN_INCOME, criteria.min_income>>)
    \o append_if(Lt(employment_years, criteria.min_employment_years),
                 <<MSG_MIN_EMPLOYMENT, criteria.min_employment_years>>)
    \o append_if(Lt(Num(u.credit_score), criteria.min_credit_score),
                 <<MSG_MIN_CREDIT_SCORE, criteria.min_credit_score>>)
    \o append_if(Gt(dti_ratio, criteria.max_dti_ratio),
                 <<MSG_MAX_DTI, criteria.max_dti_ratio, round(dti_ratio, 1)>>)
    \o append_if(Lt(interest_rate, criteria.min_interest_rate),
                 <<MSG_MIN_INTEREST_RATE, criteria.min_interest_rate>>)
    \o append_if(Gt(loan_to_income, criteria.max_loan_to_income),
                 <<MSG_MAX_LOAN_TO_INCOME, criteria.max_loan_to_income>>)

validate_loan_application(u, loan_amount, interest_rate, loan_term, loan_type) ==
    LET criteria         == criteria_get(loan_type)
        age              == calculate_age(u.date_of_birth)
        employment_years == calculate_employment_years(u.employment_start_date)
        new_loan_emi     == calculate_emi(loan_amount, interest_rate, loan_term)
        dti_ratio        == calculate_dti_ratio(u, new_loan_emi.val)
        loan_to_income   == IF Gt(u.annual_income, Zero)
                            THEN Div(loan_amount, u.annual_income)
                            ELSE Inf
        age_at_maturity  == Add(Num(age), Frac(loan_term, 12))
    IN  IF new_loan_emi.exc # "" THEN new_loan_emi
        ELSE Ok([issues |-> run_checks(u, interest_rate, criteria, age,
                                       employment_years, dti_ratio,
                                       loan_to_income, age_at_maturity),
                 calculations |->
                     [age              |-> age,
                      employment_years |-> employment_years,
                      dti_ratio        |-> dti_ratio,
                      loan_to_income   |-> loan_to_income,
                      age_at_maturity  |-> age_at_maturity]])

----------------------------------------------------------------------------
(* Inputs *)

MaxLoans == 1

Todays == {<<2026, 6, 14>>, <<2026, 6, 15>>}

Incomes == {Num(0), Num(24000), Num(600000)}

CreditScores == {600, 750}

BirthDates == {None, <<1998, 6, 15>>, <<1961, 3, 1>>}

EmploymentStartDates == {None, <<2025, 1, 10>>, <<2016, 2, 1>>}

ExistingEmis == {Num(0), Num(20000)}

Users ==
    [id : {1}, annual_income : Incomes, credit_score : CreditScores,
     date_of_birth : BirthDates, employment_start_date : EmploymentStartDates,
     existing_emis : ExistingEmis]

LoanTypes == {"Personal Loan", "Home Loan", "Car Loan", "Education Loan",
              "Business Loan", "Gold Loan"}

\* <<principal, annual rate in percent, term in months>>
ValidCalcRequests ==
         ({Num(250), Num(1000)} \X {Num(0), Num(12)} \X {1, 2, 3})
    \cup ({Num(77)} \X {Num(400)} \X {1, 2, 3, 4, 5, 6})

InvalidCalcRequests ==
         ({Num(-1000), Num(0)} \X {Num(12)} \X {3})
    \cup ({Num(1000)} \X {Num(-12)} \X {3})
    \cup ({Num(1000)} \X {Num(12)} \X {-1, 0})

CalcRequests == ValidCalcRequests \cup InvalidCalcRequests

ValidLoanRequests ==
         ({Num(10000), Num(150000)} \X {Num(0), Num(9), Num(12)} \X {2})
    \cup ({Frac(1, 1000)} \X {Num(12)} \X {2})

InvalidLoanRequests ==
    {<<Num(-10000), Num(12), 2>>, <<Num(10000), Num(-12), 2>>,
     <<Num(10000), Num(12), 0>>}

LoanRequests == ValidLoanRequests \cup InvalidLoanRequests

ApplyLoanRequests ==
    {<<Num(10000), Num(12), 2>>, <<Num(150000), Num(9), 2>>,
     <<Num(10000), Num(0), 2>>}

ApplyLoanTypes == {"Personal Loan", "Education Loan", "Gold Loan"}

\* principal > 0, termMonths >= 1, annual rate >= 0
ValidRequest(principal, annual_rate, tenure_months) ==
    /\ Gt(principal, Zero)
    /\ tenure_months >= 1
    /\ ~Lt(annual_rate, Zero)

----------------------------------------------------------------------------
(* Direct calls of the calculator and the validator, on the arguments req *)

CallCalculateEmi ==
    /\ req.fn = "LoanCalculator"
    /\ ret' = [op |-> "calculate_emi", args |-> req.args,
               out |-> calculate_emi(req.args[1], req.args[2], req.args[3])]
    /\ UNCHANGED <<today, user, users, loans, emis, req>>

CallGenerateEmiSchedule ==
    /\ req.fn = "LoanCalculator"
    /\ ret' = [op |-> "generate_emi_schedule", args |-> req.args,
               out |-> generate_emi_schedule(req.args[1], req.args[2],
                                             req.args[3], today)]
    /\ UNCHANGED <<today, user, users, loans, emis, req>>

CallCalculateTotalInterest ==
    /\ req.fn = "LoanCalculator"
    /\ ret' = [op |-> "calculate_total_interest", args |-> req.args,
               out |-> calculate_total_interest(req.args[1], req.args[2],
                                                req.args[3])]
    /\ UNCHANGED <<today, user, users, loans, emis, req>>

CallValidateLoanApplication ==
    /\ req.fn = "LoanValidator"
    /\ ret' = [op |-> "validate_loan_application", args |-> req.args,
               out |-> validate_loan_application(user, req.args[1],
                           req.args[2], req.args[3], req.args[4])]
    /\ UNCHANGED <<today, user, users, loans, emis, req>>

----------------------------------------------------------------------------
(* app.py: apply_loan *)

\* ' | '.join(issues): the issues with the separator between them
RECURSIVE join(_)
join(issues) ==
    IF Len(issues) = 0 THEN <<>>
    ELSE IF Len(issues) = 1 THEN issues
    ELSE <<Head(issues), " | ">> \o join(Tail(issues))

\* decision that rejects only on more than one issue
decision_more_than_one(issues) ==
    IF Len(issues) > 1
    THEN [status |-> "Rejected", rejection_reason |-> join(issues),
          flash |-> <<"Loan application automatically rejected: {}", "error">>]
    ELSE [status |-> "Pending", rejection_reason |-> None,
          flash |-> <<"Loan application submitted successfully! Under review.",
                      "success">>]

\* the status and rejection_reason apply_loan derives from issues
decision(issues) ==
    IF Len(issues) > 0
    THEN [status |-> "Rejected", rejection_reason |-> join(issues),
          flash |-> <<"Loan application automatically rejected: {}", "error">>]
    ELSE [status |-> "Pending", rejection_reason |-> None,
          flash |-> <<"Loan application submitted successfully! Under review.",
                      "success">>]

ApplyLoanGet ==
    /\ ret' = [op |-> "apply_loan", method |-> "GET", status |-> 200,
               page |-> "apply_loan.html"]
    /\ UNCHANGED <<today, user, users, loans, emis, req>>

ApplyLoanPost ==
    \E r \in ApplyLoanRequests, loan_type \in ApplyLoanTypes :
        LET v == validate_loan_application(user, r[1], r[2], r[3], loan_type)
        IN  /\ Len(loans) < MaxLoans
            /\ IF v.exc # ""
               THEN \* the exception leaves the handler: no row is added
                    /\ ret' = [op |-> "apply_loan", method |-> "POST",
                               args |-> <<r[1], r[2], r[3], loan_type>>,
                               status |-> 500, exc |-> v.exc]
                    /\ UNCHANGED loans
               ELSE LET dec == decision(v.val.issues)
                        new_loan ==
                            [id               |-> Len(loans) + 1,
                             user_id          |-> user.id,
                             loan_amount      |-> r[1],
                             interest_rate    |-> r[2],
                             loan_term        |-> r[3],
                             loan_type        |-> loan_type,
                             status           |-> dec.status,
                             rejection_reason |-> dec.rejection_reason,
                             created_at       |-> today,
                             start_date       |-> None]
                    IN  /\ loans' = Append(loans, new_loan)
                        /\ ret' = [op |-> "apply_loan", method |-> "POST",
                                   args |-> <<r[1], r[2], r[3], loan_type>>,
                                   status |-> 302, location |-> "view_loans",
                                   issues |-> v.val.issues,
                                   flash |-> dec.flash]
            /\ UNCHANGED <<today, user, users, emis, req>>

apply_loan == ApplyLoanGet \/ ApplyLoanPost

----------------------------------------------------------------------------
(* app.py: login *)

\* a POST with the username and password of the user row i
LoginPostValid ==
    \E i \in 1..Len(users) :
        /\ user' = users[i]
        /\ ret' = [op |-> "login", method |-> "POST", status |-> 302,
                   location |-> "dashboard",
                   flash |-> <<"Login successful!", "success">>]
        /\ UNCHANGED <<today, users, loans, emis, req>>

\* a POST with an unknown username or a wrong password
LoginPostInvalid ==
    /\ ret' = [op |-> "login", method |-> "POST", status |-> 200,
               page |-> "login.html",
               flash |-> <<"Invalid credentials!", "error">>]
    /\ UNCHANGED <<today, user, users, loans, emis, req>>

login == LoginPostValid \/ LoginPostInvalid

----------------------------------------------------------------------------
(* The manual review: no handler sets 'Approved'; a reviewer outside the
   application turns a Pending loan into an Approved one, with or without a
   start date *)

manual_approval ==
    \E i \in 1..Len(loans), start_date \in {None, today} :
        /\ loans[i].status = "Pending"
        /\ loans' = [loans EXCEPT ![i].status = "Approved",
                                  ![i].start_date = start_date]
        /\ ret' = [op |-> "manual_approval", loan_id |-> i]
        /\ UNCHANGED <<today, user, users, emis, req>>

----------------------------------------------------------------------------
(* app.py: payment_history *)

\* insertion of an EMI row into rows sorted by emi_number
RECURSIVE insert_by_emi_number(_, _)
insert_by_emi_number(row, sorted) ==
    IF Len(sorted) = 0 THEN <<row>>
    ELSE IF row.emi_number < Head(sorted).emi_number THEN <<row>> \o sorted
    ELSE <<Head(sorted)>> \o insert_by_emi_number(row, Tail(sorted))

RECURSIVE order_by_emi_number(_)
order_by_emi_number(rows) ==
    IF Len(rows) = 0 THEN <<>>
    ELSE insert_by_emi_number(rows[Len(rows)],
                              order_by_emi_number(SubSeq(rows, 1, Len(rows) - 1)))

\* EMI.query.filter_by(loan_id=loan_id).order_by(EMI.emi_number).all()
emi_query(table, loan_id) ==
    order_by_emi_number(SelectSeq(table, LAMBDA row : row.loan_id = loan_id))

\* generate the records without looking at the existing ones
generates_records_when_approved(loan_emis, loan) == loan.status = "Approved"

\* "if not emis and loan.status == 'Approved'"
generates_records(loan_emis, loan) ==
    Len(loan_emis) = 0 /\ loan.status = "Approved"

\* the EMI rows added for the schedule entries, after the rows of table
RECURSIVE emi_rows(_, _, _)
emi_rows(schedule, loan_id, next_id) ==
    IF Len(schedule) = 0 THEN <<>>
    ELSE <<[id               |-> next_id,
            loan_id          |-> loan_id,
            emi_number       |-> Head(schedule).emi_number,
            due_date         |-> Head(schedule).due_date,
            amount_due       |-> Head(schedule).emi_amount,
            principal_amount |-> Head(schedule).principal_component,
            interest_amount  |-> Head(schedule).interest_component,
            status           |-> "Pending",
            paid_date        |-> None,
            late_fee         |-> Zero]>>
         \o emi_rows(Tail(schedule), loan_id, next_id + 1)

payment_history ==
    \E loan_id \in 1..(Len(loans) + 1) :
        /\ IF loan_id > Len(loans)
           THEN \* get_or_404
                /\ ret' = [op |-> "payment_history", loan_id |-> loan_id,
                           status |-> 404]
                /\ UNCHANGED emis
           ELSE IF loans[loan_id].user_id # user.id
           THEN /\ ret' = [op |-> "payment_history", loan_id |-> loan_id,
                           status |-> 302, location |-> "dashboard",
                           flash |-> <<"Access denied!", "error">>]
                /\ UNCHANGED emis
           ELSE LET loan      == loans[loan_id]
                    loan_emis == emi_query(emis, loan_id)
                    schedule  == generate_emi_schedule(loan.loan_amount,
                                     loan.interest_rate, loan.loan_term,
                                     IF loan.start_date # None
                                     THEN loan.start_date ELSE today)
                IN  IF ~generates_records(loan_emis, loan)
                    THEN /\ ret' = [op |-> "payment_history",
                                    loan_id |-> loan_id, status |-> 200,
                                    page |-> "payment_history.html",
                                    generated |-> FALSE, emis |-> loan_emis]
                         /\ UNCHANGED emis
                    ELSE IF schedule.exc # ""
                    THEN \* the exception leaves the handler before the commit
                         /\ ret' = [op |-> "payment_history",
                                    loan_id |-> loan_id, status |-> 500,
                                    exc |-> schedule.exc]
                         /\ UNCHANGED emis
                    ELSE /\ emis' = emis \o emi_rows(schedule.val, loan_id,
                                                     Len(emis) + 1)
                         /\ ret' = [op |-> "payment_history",
                                    loan_id |-> loan_id, status |-> 200,
                                    page |-> "payment_history.html",
                                    generated |-> TRUE,
                                    emis |-> emi_query(emis', loan_id)]
        /\ UNCHANGED <<today, user, users, loans, req>>

----------------------------------------------------------------------------
(* Specifications *)

Init ==
    /\ today \in Todays
    /\ user \in Users
    /\ users = <<user>>
    /\ loans = <<>>
    /\ emis = <<>>
    /\ req = None
    /\ ret = [op |-> "none"]

\* the web application
Next == apply_loan

Spec == Init /\ [][Next]_vars

\* the calculator and the validator called directly
NextCalc ==
    \/ CallCalculateEmi
    \/ CallGenerateEmiSchedule
    \/ CallCalculateTotalInterest
    \/ CallValidateLoanApplication

InitCalc ==
    /\ today \in Todays
    /\ user \in Users
    /\ users = <<user>>
    /\ loans = <<>>
    /\ emis = <<>>
    /\ req \in [fn : {"LoanCalculator"}, args : CalcRequests]
              \cup [fn : {"LoanValidator"},
                    args : {<<r[1], r[2], r[3], t>> :
                                r \in LoanRequests, t \in LoanTypes}]
    /\ ret = [op |-> "none"]

SpecCalc == InitCalc /\ [][NextCalc]_vars

\* two registered users applying for loans, the manual review, and the
\* payment histories
HistoryUsers ==
    {u \in Users : /\ u.credit_score = 750
                   /\ <<1998, 6, 15>> = u.date_of_birth
                   /\ <<2016, 2, 1>> = u.employment_start_date
                   /\ u.existing_emis = Zero
                   /\ u.annual_income \in {Num(24000), Num(600000)}}

InitHistory ==
    /\ today \in Todays
    /\ \E u1 \in HistoryUsers, u2 \in HistoryUsers :
           users = <<u1, [u2 EXCEPT !.id = 2]>>
    /\ user = users[1]
    /\ loans = <<>>
    /\ emis = <<>>
    /\ req = None
    /\ ret = [op |-> "none"]

NextHistory ==
    \/ login
    \/ apply_loan
    \/ manual_approval
    \/ payment_history

SpecHistory == InitHistory /\ [][NextHistory]_vars

----------------------------------------------------------------------------
(* Helpers of the properties *)

Cent == Frac(1, 100)

AbsFrac(a) == IF a.n < 0 THEN Neg(a) ELSE a

\* |a - b| <= 0.01
WithinCent(a, b) == ~Gt(AbsFrac(Sub(a, b)), Cent)

RECURSIVE SumField(_, _)
SumField(schedule, field) ==
    IF Len(schedule) = 0 THEN Zero
    ELSE Add(Head(schedule)[field], SumField(Tail(schedule), field))

RetValid == ValidRequest(ret.args[1], ret.args[2], ret.args[3])

Returned(op) == ret.op = op /\ ret.out.exc = ""

HasReason(issues, template) == \E i \in 1..Len(issues) : issues[i][1] = template

----------------------------------------------------------------------------
(* C1: calculate_emi, generate_emi_schedule and validate_loan_application
   fail with InvalidArgument on every input with principal <= 0,
   termMonths <= 0 or annual rate < 0; they never return a value for it. *)
C1_InvalidArgumentRaised ==
    (/\ ret.op \in {"calculate_emi", "generate_emi_schedule",
                    "validate_loan_application"}
     /\ ~RetValid)
    => ret.out.exc = "InvalidArgument"

(* C2: for principal > 0 and termMonths >= 1, calculate_emi with annual
   rate 0 returns principal / termMonths rounded to 2 decimals and does not
   end in a division by zero. *)
C2_ZeroRateInstallment ==
    (/\ ret.op = "calculate_emi"
     /\ RetValid
     /\ IsZero(ret.args[2]))
    => ret.out = Ok(round(Div(ret.args[1], Num(ret.args[3])), 2))

----------------------------------------------------------------------------
(* The eight threshold comparisons, stated on a returned result *)

CheckTemplates ==
    <<MSG_MIN_AGE, MSG_MAX_AGE_MATURITY, MSG_MIN_INCOME, MSG_MIN_EMPLOYMENT,
      MSG_MIN_CREDIT_SCORE, MSG_MAX_DTI, MSG_MIN_INTEREST_RATE,
      MSG_MAX_LOAN_TO_INCOME>>

\* which of the eight checks fail, from the thresholds of the loan type and
\* the metrics the call reported
CheckFails(u, interest_rate, loan_type, m) ==
    LET c == criteria_get(loan_type)
    IN  <<Lt(Num(m.age), c.min_age),
          Gt(m.age_at_maturity, c.max_age_maturity),
          Lt(u.annual_income, c.min_income),
          Lt(m.employment_years, c.min_employment_years),
          Lt(Num(u.credit_score), c.min_credit_score),
          Gt(m.dti_ratio, c.max_dti_ratio),
          Lt(interest_rate, c.min_interest_rate),
          Gt(m.loan_to_income, c.max_loan_to_income)>>

FailingChecks(fails) == SelectSeq(<<1, 2, 3, 4, 5, 6, 7, 8>>, LAMBDA k : fails[k])

(* C3: the reasons list returned by validate_loan_application holds exactly
   one reason per failing check and none for a passing check, in the fixed
   order of the eight checks; its length is the number of failing checks. *)
C3_OneReasonPerFailingCheck ==
    Returned("validate_loan_application") =>
        LET issues  == ret.out.val.issues
            failing == FailingChecks(CheckFails(user, ret.args[2], ret.args[4],
                                                ret.out.val.calculations))
        IN  /\ Len(issues) = Len(failing)
            /\ \A i \in 1..Len(issues) :
                   issues[i][1] = CheckTemplates[failing[i]]

\* a call on a valid request returned three or more reasons while the first
\* check passed
C3_Witness ==
    /\ Returned("validate_loan_application")
    /\ RetValid
    /\ Len(ret.out.val.issues) >= 3
    /\ ret.out.val.issues[1][1] # MSG_MIN_AGE

(* C4: every stored Loan has status 'Rejected' with a non-empty
   rejection_reason exactly when the validator reports issues for it, and
   status 'Pending' with no rejection_reason otherwise; no evaluation yields
   'Approved'. *)
C4_RejectedIffIssues ==
    /\ \A i \in 1..Len(loans) :
           LET l == loans[i]
               v == validate_loan_application(user, l.loan_amount,
                        l.interest_rate, l.loan_term, l.loan_type)
           IN  /\ l.status \in {"Rejected", "Pending"}
               /\ v.exc = ""
               /\ l.status = "Rejected" <=> Len(v.val.issues) > 0
               /\ l.status = "Rejected" =>
                      l.rejection_reason # None /\ Len(l.rejection_reason) > 0
               /\ l.status = "Pending" => l.rejection_reason = None
    /\ (ret.op = "apply_loan" /\ ret.method = "POST" /\ ret.status = 302) =>
           (loans[Len(loans)].status = "Rejected" <=> Len(ret.issues) > 0)

\* a loan was stored as Rejected on a single issue
C4_Witness ==
    /\ ret.op = "apply_loan" /\ ret.method = "POST" /\ ret.status = 302
    /\ Len(ret.issues) = 1
    /\ loans[Len(loans)].status = "Rejected"

(* C5: for every valid (principal, rate, termMonths), generate_emi_schedule
   returns exactly termMonths entries numbered 1, 2, ..., termMonths, and the
   remaining_principal of the last entry is 0 within 0.01. *)
C5_FullSchedule ==
    (ret.op = "generate_emi_schedule" /\ RetValid) =>
        /\ ret.out.exc = ""
        /\ Len(ret.out.val) = ret.args[3]
        /\ \A i \in 1..Len(ret.out.val) : ret.out.val[i].emi_number = i
        /\ WithinCent(ret.out.val[ret.args[3]].remaining_principal, Zero)

(* C6: for every valid (principal, rate, termMonths), the sum of the rounded
   principal_component values over the schedule returned by
   generate_emi_schedule equals principal within 0.01. *)
C6_PrincipalSum ==
    (Returned("generate_emi_schedule") /\ RetValid) =>
        WithinCent(SumField(ret.out.val, "principal_component"), ret.args[1])

(* C7: for every valid (principal, rate, termMonths), calculate_total_interest
   equals the sum of interest_component over the schedule returned by
   generate_emi_schedule for the same inputs, within 0.01. *)
C7_TotalInterestMatchesSchedule ==
    (Returned("generate_emi_schedule") /\ RetValid) =>
        LET total == calculate_total_interest(ret.args[1], ret.args[2],
                                              ret.args[3])
        IN  /\ total.exc = ""
            /\ WithinCent(total.val,
                          SumField(ret.out.val, "interest_component"))

(* C8: with annual income 0, for every loan type and every valid request,
   validate_loan_application does not divide by zero: it reports dti_ratio
   100 and loan_to_income +infinity, and the loan-to-income reason is in the
   reasons list. *)
C8_ZeroIncomeSentinels ==
    (/\ ret.op = "validate_loan_application"
     /\ RetValid
     /\ IsZero(user.annual_income))
    => /\ ret.out.exc = ""
       /\ ret.out.val.calculations.dti_ratio = Num(100)
       /\ ret.out.val.calculations.loan_to_income = Inf
       /\ HasReason(ret.out.val.issues, MSG_MAX_LOAN_TO_INCOME)

(* C9: a loan type that is not a key of the criteria catalog is evaluated
   against the Personal Loan thresholds: the call has the same outcome, reasons
   and metrics as with 'Personal Loan', and the lookup itself never fails. *)
C9_UnknownTypeIsPersonal ==
    (/\ ret.op = "validate_loan_application"
     /\ CatalogKey(ret.args[4]) \notin DOMAIN LOAN_CRITERIA)
    => /\ ret.out = validate_loan_application(user, ret.args[1], ret.args[2],
                                              ret.args[3], "Personal Loan")
       /\ ret.out.exc # "KeyError"

\* an unknown loan type was evaluated and rejected on the Personal Loan
\* interest-rate floor, which no other catalog entry shares
C9_Witness ==
    /\ Returned("validate_loan_application")
    /\ RetValid
    /\ ret.args[4] = "Gold Loan"
    /\ \E i \in 1..Len(ret.out.val.issues) :
           ret.out.val.issues[i] = <<MSG_MIN_INTEREST_RATE, Frac(21, 2)>>

(* C10: for 'Education Loan' (max_dti_ratio 0) the DTI check is the literal
   comparison dti > 0: the DTI reason is present whenever the reported DTI is
   greater than 0, the income-0 sentinel 100 included, and for a valid
   request it is absent only when the DTI is exactly 0. *)
C10_EducationDtiLiteral ==
    (Returned("validate_loan_application") /\ ret.args[4] = "Education Loan") =>
        LET dti     == ret.out.val.calculations.dti_ratio
            present == HasReason(ret.out.val.issues, MSG_MAX_DTI)
        IN  /\ present <=> Gt(dti, Zero)
            /\ IsZero(user.annual_income) => dti = Num(100) /\ present
            /\ RetValid => (~present <=> IsZero(dti))

\* an Education Loan call returned with a DTI of exactly 0 and no DTI reason
C10_Witness ==
    /\ Returned("validate_loan_application")
    /\ ret.args[4] = "Education Loan"
    /\ RetValid
    /\ IsZero(ret.out.val.calculations.dti_ratio)
    /\ ~HasReason(ret.out.val.issues, MSG_MAX_DTI)

----------------------------------------------------------------------------
(* The EMI records of a loan *)

\* the records stored for the loan are none, or loan_term records numbered
\* 1..loan_term
NoneOrFullSet(loan_id) ==
    LET rows == emi_query(emis, loan_id)
    IN  \/ Len(rows) = 0
        \/ /\ Len(rows) = loans[loan_id].loan_term
           /\ \A k \in 1..Len(rows) : rows[k].emi_number = k

EmiRecordsWellFormed ==
    /\ \A k \in 1..Len(emis) : emis[k].loan_id \in 1..Len(loans)
    /\ \A loan_id \in 1..Len(loans) : NoneOrFullSet(loan_id)

\* a step that changes the EMI table is a payment_history request of the
\* owner of an Approved loan without records, and adds records of that loan
\* only
RecordsCreatedOnlyByOwnerOnce ==
    emis' # emis =>
        /\ ret'.op = "payment_history"
        /\ ret'.loan_id \in 1..Len(loans)
        /\ loans[ret'.loan_id].user_id = user.id
        /\ loans[ret'.loan_id].status = "Approved"
        /\ Len(emi_query(emis, ret'.loan_id)) = 0
        /\ Len(emis') > Len(emis)
        /\ SubSeq(emis', 1, Len(emis)) = emis
        /\ \A k \in (Len(emis) + 1)..Len(emis') : emis'[k].loan_id = ret'.loan_id

(* C11: after any sequence of login, apply_loan, manual approval and
   payment_history requests, the EMI records stored for a loan are either
   none or exactly loan_term records numbered 1..loan_term; records are
   created only by a payment_history request of the loan's owner for an
   Approved loan that has no record yet, so a repeated request, a request
   for another user's loan and a request for a Pending or Rejected loan
   create none. *)
C11_EmiRecordsNoneOrOneSet ==
    [](EmiRecordsWellFormed) /\ [][RecordsCreatedOnlyByOwnerOnce]_vars

\* the owner repeated the request for a loan whose records exist: the page
\* shows the one set and nothing was generated
C11_Witness ==
    /\ ret.op = "payment_history"
    /\ ret.status = 200
    /\ ~ret.generated
    /\ Len(ret.emis) > 0
    /\ Len(ret.emis) = loans[ret.loan_id].loan_term
    /\ Len(emis) = Len(ret.emis)

====
